---- MODULE Spec2Model ----
(***************************************************************************)
(* QuickScope (src/src/py_gadgets/tools/quickscope.py): an asyncio TCP     *)
(* port scanner.  The module models main() from argument parsing to the    *)
(* exit code: port and target parsing, name resolution, the semaphore-     *)
(* bounded probe tasks of run_scan, the interrupt path and the four        *)
(* renderers.                                                              *)
(*                                                                         *)
(* Strings of the program are TLA+ strings.  A port or exclusion           *)
(* specification is the sequence of its comma-separated parts, each part   *)
(* already classified the way lines 14-22 classify it.  The library calls  *)
(* (ipaddress, getaddrinfo, the peer's answer to a connect) are tables     *)
(* and nondeterministic choices over a small universe.                     *)
(***************************************************************************)
EXTENDS Integers, Sequences, FiniteSets, TLC

VARIABLES
  pc,          \* position of main(): "parse", "resolve", "start", "scan", "render",
               \* "exit" (main returned), "raised" (an exception left main)
  targets,     \* args.targets
  portArg,     \* args.ports
  excludeArg,  \* args.exclude
  flags,       \* args.concurrency, open_only, no_banner, progress
  tokens,      \* main: tokens = expand_targets(args.targets)
  ports,       \* main: ports = parse_ports(args.ports)
  exclude,     \* main: exclude = parse_exclude(args.exclude)
  ips,         \* main: ips = asyncio.run(materialize_ips(tokens))
  work,        \* run_scan: ports after line 88
  tasks,       \* run_scan: the (ip, port) of each created task, in creation order
  started,     \* number of tasks whose first step has run
  tpc,         \* position of each task
  tbanner,     \* probe: the local variable banner of each task
  sem,         \* asyncio.Semaphore._value
  waiters,     \* asyncio.Semaphore._waiters (FIFO of task indices)
  results,     \* run_scan: results, host -> list of entries
  done,        \* run_scan: done
  report,      \* the dict run_scan returns, as a sequence of [ip, entries] in insertion order
  render,      \* the rendering flags read at lines 215-222 and the renderer chosen
  stdout,      \* lines written to the primary output
  stderr,      \* lines written to the diagnostic channel
  exitCode,    \* <<c>> once main has returned c, <<>> before and when an exception leaves main
  attempts,    \* history: the (ip, port) of each open_connection call, in call order
  connected,   \* history: the (ip, port) whose connection was established
  bannerErr,   \* history: the (ip, port) whose banner sequence raised or timed out
  interrupted  \* history: a KeyboardInterrupt was delivered, and at which position

vars == <<pc, targets, portArg, excludeArg, flags, tokens, ports, exclude, ips, work,
          tasks, started, tpc, tbanner, sem, waiters, results, done, report, render,
          stdout, stderr, exitCode, attempts, connected, bannerErr, interrupted>>

-----------------------------------------------------------------------------
(* Bounds of the model *)

MaxParts == 2      \* parts of a port specification
MaxVal == 2        \* port numbers 0..MaxVal are written in a specification
MaxTargets == 2    \* target tokens on the command line
MaxConc == 2       \* --concurrency
MaxRange == 51     \* ports 1..MaxRange of the long scans
MidRange == 25     \* ports 1..MidRange of the long scans

(* Program constants *)

MaxPortNumber == 65535
MinPortNumber == 1
ExitInvalid == 2
ExitAborted == 130
ExitOk == 0
ProgressEvery == 50

COMMON_PORTS ==
  <<21, 22, 23, 25, 53, 80, 110, 123, 135, 139, 143, 161, 389, 443, 445, 465, 514, 587,
    631, 636, 8080, 8443, 25565>>

-----------------------------------------------------------------------------
(* Python built-ins used by the program *)

SeqToSet(s) == {s[i] : i \in 1..Len(s)}

RECURSIVE Concat(_)
Concat(ss) == IF ss = <<>> THEN <<>> ELSE Head(ss) \o Concat(Tail(ss))

Min(S) == CHOOSE x \in S : \A y \in S : x <= y

\* sorted(S) for a set of integers
RECURSIVE Sorted(_)
Sorted(S) == IF S = {} THEN <<>> ELSE <<Min(S)>> \o Sorted(S \ {Min(S)})

\* seen=set(); out=[]; for x in s: if x not in seen: seen.add(x); out.append(x)
RECURSIVE DedupeFrom(_, _)
DedupeFrom(s, seen) ==
  IF s = <<>> THEN <<>>
  ELSE IF Head(s) \in seen THEN DedupeFrom(Tail(s), seen)
       ELSE <<Head(s)>> \o DedupeFrom(Tail(s), seen \cup {Head(s)})

Dedupe(s) == DedupeFrom(s, {})

Ok(v) == [err |-> FALSE, val |-> v]
Raise == [err |-> TRUE, val |-> <<>>]

-----------------------------------------------------------------------------
(* parse_ports, parse_exclude *)

\* The parts of s.split(","), each stripped and classified:
\*   blank  the part is empty after strip                      (line 15)
\*   int    int(part) succeeds and gives a                     (line 22)
\*   range  the part has a "-", int() of both sides succeeds   (lines 17-18)
\*   bad    int() raises ValueError                            (lines 18, 22)
Blank == [k |-> "blank", a |-> 0, b |-> 0]
BadPart == [k |-> "bad", a |-> 0, b |-> 0]
IntPart(n) == [k |-> "int", a |-> n, b |-> n]
RangePart(lo, hi) == [k |-> "range", a |-> lo, b |-> hi]

\* A specification: the alias, no option at all (exclusion only), or a list of parts
CommonSpec == [kind |-> "common", parts |-> <<>>]
NoSpec == [kind |-> "none", parts |-> <<>>]
ListSpec(ps) == [kind |-> "list", parts |-> ps]

\* the same without the swap of line 19
PartPortsNoSwap(p) ==
  IF p.k = "range" THEN p.a .. p.b ELSE IF p.k = "int" THEN {p.a} ELSE {}

\* lines 16-22: what one part adds to out
PartPorts(p) ==
  IF p.k = "range"
    THEN (IF p.a > p.b THEN p.b .. p.a ELSE p.a .. p.b)
    ELSE IF p.k = "int" THEN {p.a} ELSE {}

InRange(p) == MinPortNumber <= p /\ p <= MaxPortNumber

\* parse_ports(s): the list returned, or the ValueError of int()
ParsePorts(s) ==
  IF s.kind = "common" THEN Ok(COMMON_PORTS)
  ELSE IF \E i \in 1..Len(s.parts) : s.parts[i].k = "bad" THEN Raise
  ELSE Ok(Sorted({p \in UNION {PartPorts(s.parts[i]) : i \in 1..Len(s.parts)} : InRange(p)}))

\* parse_exclude(s): set(parse_ports(s)) if s else set(); the set is kept in val
ParseExclude(s) ==
  IF s.kind = "none" THEN Ok({})
  ELSE LET r == ParsePorts(s) IN
       IF r.err THEN [err |-> TRUE, val |-> {}] ELSE Ok(SeqToSet(r.val))

-----------------------------------------------------------------------------
(* Target tokens and the library calls made on them *)

Literals == {"192.168.0.1", "192.168.0.2", "::1", "0:0:0:0:0:0:0:1"}
Networks == {"192.168.0.0/30", "::/127"}
BadNetworks == {"10.0.0.0/33"}
Names == {"a.example", "nx.invalid"}
Blanks == {"", " "}
AllTokens == Literals \cup Networks \cup BadNetworks \cup Names \cup Blanks

\* every address string the universe can produce
Hosts == Literals \cup {"::"}

\* t.strip()
Strip(t) == IF t \in Blanks THEN "" ELSE t

\* "/" in t
HasSlash(t) == t \in Networks \cup BadNetworks

\* ipaddress.ip_address(t) does not raise ValueError
IsIpLiteral(t) == t \in Hosts

\* the address a literal denotes, in canonical spelling (str(ipaddress.ip_address(t)))
Addr(t) == IF t = "0:0:0:0:0:0:0:1" THEN "::1" ELSE t

\* [str(ip) for ip in ipaddress.ip_network(t, strict=False).hosts()], or ValueError
NetworkHosts(t) ==
  IF t = "192.168.0.0/30" THEN Ok(<<"192.168.0.1", "192.168.0.2">>)
  ELSE IF t = "::/127" THEN Ok(<<"::", "::1">>)
  ELSE Raise

\* loop.getaddrinfo(t, None, type=SOCK_STREAM): (family, address) of each info, or gaierror
GetAddrInfo(t) ==
  IF t = "a.example"
    THEN Ok(<<[fam |-> "AF_INET", ip |-> "192.168.0.2"], [fam |-> "AF_INET6", ip |-> "::1"],
              [fam |-> "AF_INET", ip |-> "192.168.0.2"]>>)
    ELSE Raise

\* lines 52-59: what one target adds to out
ExpandOne(t) ==
  IF Strip(t) = "" THEN Ok(<<>>)
  ELSE IF HasSlash(Strip(t)) THEN NetworkHosts(Strip(t))
  ELSE Ok(<<Strip(t)>>)

\* expand_targets(targets): the list returned, or the ValueError of ip_network
ExpandTargets(ts) ==
  IF \E i \in 1..Len(ts) : ExpandOne(ts[i]).err THEN Raise
  ELSE Ok(Dedupe(Concat([i \in 1..Len(ts) |-> ExpandOne(ts[i]).val])))

\* resolve_target(t): the list returned, or the gaierror of getaddrinfo
ResolveTarget(t) ==
  IF IsIpLiteral(t) THEN Ok(<<t>>)
  ELSE LET infos == GetAddrInfo(t) IN
       IF infos.err THEN Raise
       ELSE LET kept == SelectSeq(infos.val, LAMBDA x : x.fam \in {"AF_INET", "AF_INET6"})
            IN  Ok(Dedupe([i \in 1..Len(kept) |-> kept[i].ip]))

\* lines 118-124: what one token adds to ips
MaterializeOne(tok) == IF IsIpLiteral(tok) THEN Ok(<<tok>>) ELSE ResolveTarget(tok)

\* materialize_ips(maybe_names): the list returned, or the exception of resolve_target
MaterializeIps(toks) ==
  IF \E i \in 1..Len(toks) : MaterializeOne(toks[i]).err THEN Raise
  ELSE Ok(Dedupe(Concat([i \in 1..Len(toks) |-> MaterializeOne(toks[i]).val])))

-----------------------------------------------------------------------------
(* run_scan: the semaphore, the tasks, the probe *)

\* a failed probe reported like a successful one
EntryAlwaysOpen(port, ok, banner) == [port |-> port, state |-> "open", banner |-> banner]

\* line 97: the dict appended to the host's list
Entry(port, ok, banner) ==
  [port |-> port, state |-> IF ok THEN "open" ELSE "closed", banner |-> IF ok THEN banner ELSE ""]

\* the port list with line 88 left out
WorkPortsNoExclude(ps, ex) == ps

\* line 88: ports = [p for p in ports if p not in exclude]
WorkPorts(ps, ex) == SelectSeq(ps, LAMBDA p : p \notin ex)

\* the two loops of line 104 exchanged
PairsPortMajor(hs, ps) ==
  [k \in 1..(Len(hs) * Len(ps)) |->
     [ip |-> hs[((k - 1) % Len(hs)) + 1], port |-> ps[((k - 1) \div Len(hs)) + 1]]]

\* line 104: [(ip, p) for ip in ips for p in ports]
Pairs(hs, ps) ==
  [k \in 1..(Len(hs) * Len(ps)) |->
     [ip |-> hs[((k - 1) \div Len(ps)) + 1], port |-> ps[((k - 1) % Len(ps)) + 1]]]

\* line 89: total = len(ips) * len(ports)
Total == Len(ips) * Len(work)

\* a gate that forgets to look at its counter
LockedIgnoresValue(value, queue) == queue # <<>>

\* asyncio.Semaphore.locked(): no free slot, or somebody is already waiting
Locked(value, queue) == value = 0 \/ queue # <<>>

Holding == {i \in 1..Len(tasks) : tpc[i] \in {"connect", "banner", "closing"}}

\* only open results are kept, whatever the mode
KeepOpen(ok, open_only) == ok

\* every result is kept, whatever the mode
KeepAlways(ok, open_only) == TRUE

\* line 96: the result is kept
Keep(ok, open_only) == ok \/ ~open_only

\* the test of the final count left out
ProgressDueEveryOnly(n) == flags.progress /\ Total # 0 /\ n % ProgressEvery = 0

\* lines 99-100: a progress line is printed at this count
ProgressDue(n) == flags.progress /\ Total # 0 /\ (n % ProgressEvery = 0 \/ n = Total)

Diag(kind, n, of) == [kind |-> kind, n |-> n, of |-> of]

\* line 113: the dict returned, in the insertion order of results
HostKept(v, open_only) ==
  v # <<>> /\ (~open_only \/ \E k \in 1..Len(v) : v[k].state = "open")

Report(res, hs, open_only) ==
  LET kept == SelectSeq(hs, LAMBDA h : HostKept(res[h], open_only))
  IN  [k \in 1..Len(kept) |-> [ip |-> kept[k], entries |-> res[kept[k]]]]

-----------------------------------------------------------------------------
(* The renderers *)

Line(kind, ip, port, state, banner) ==
  [kind |-> kind, ip |-> ip, port |-> port, state |-> state, banner |-> banner]

\* sorted(entries, key=lambda e: e["port"]): a stable insertion sort
RECURSIVE InsertByPort(_, _)
InsertByPort(e, es) ==
  IF es = <<>> THEN <<e>>
  ELSE IF e.port < Head(es).port THEN <<e>> \o es
       ELSE <<Head(es)>> \o InsertByPort(e, Tail(es))

RECURSIVE SortedByPort(_)
SortedByPort(es) ==
  IF es = <<>> THEN <<>>
  ELSE InsertByPort(es[Len(es)], SortedByPort(SubSeq(es, 1, Len(es) - 1)))

OpenOnly(es) == SelectSeq(es, LAMBDA e : e.state = "open")

\* b = e["banner"].replace('"', '""'), printed between double quotes
CsvQuote(b) == IF b = "say \"hi\"" THEN "\"say \"\"hi\"\"\"" ELSE "\"" \o b \o "\""

\* the same with the banner suffix of line 143 left out
PrettyHostNoBanner(r, open_only) ==
  LET es == IF open_only THEN OpenOnly(SortedByPort(r.entries)) ELSE SortedByPort(r.entries)
  IN  IF open_only /\ es = <<>> THEN <<>>
      ELSE <<Line("host", r.ip, 0, "", "")>>
           \o [k \in 1..Len(es) |-> Line("port", "", es[k].port, es[k].state, "")]

\* print_pretty, lines 135-146, for one host
PrettyHost(r, open_only) ==
  LET es == IF open_only THEN OpenOnly(SortedByPort(r.entries)) ELSE SortedByPort(r.entries)
  IN  IF open_only /\ es = <<>> THEN <<>>
      ELSE <<Line("host", r.ip, 0, "", "")>>
           \o [k \in 1..Len(es) |-> Line("port", "", es[k].port, es[k].state,
                                         IF es[k].state = "open" THEN es[k].banner ELSE "")]

\* print_pretty(results, open_only)
PrintPretty(rep, open_only) ==
  IF rep = <<>>
    THEN <<Line(IF open_only THEN "No open ports found." ELSE "No results.", "", 0, "", "")>>
    ELSE Concat([k \in 1..Len(rep) |-> PrettyHost(rep[k], open_only)])

\* the rows of one host, lines 153-156 and 161-164
Rows(kind, r, open_only) ==
  LET es == IF open_only THEN OpenOnly(SortedByPort(r.entries)) ELSE SortedByPort(r.entries)
  IN  [k \in 1..Len(es) |->
         Line(kind, r.ip, es[k].port, es[k].state,
              IF kind = "csv" THEN CsvQuote(es[k].banner) ELSE es[k].banner)]

\* print_csv(results, open_only, header)
PrintCsv(rep, open_only, header) ==
  (IF header THEN <<Line("ip,port,protocol,state,banner", "", 0, "", "")>> ELSE <<>>)
  \o Concat([k \in 1..Len(rep) |-> Rows("csv", rep[k], open_only)])

\* print_ndjson(results, open_only)
PrintNdjson(rep, open_only) == Concat([k \in 1..Len(rep) |-> Rows("ndjson", rep[k], open_only)])

\* the order of the address strings as Python compares them (sort_keys=True)
HostRank(h) ==
  CASE h = "0:0:0:0:0:0:0:1" -> 1
    [] h = "192.168.0.1" -> 2
    [] h = "192.168.0.2" -> 3
    [] h = "::" -> 4
    [] h = "::1" -> 5

RECURSIVE InsertByKey(_, _)
InsertByKey(r, rs) ==
  IF rs = <<>> THEN <<r>>
  ELSE IF HostRank(r.ip) < HostRank(Head(rs).ip) THEN <<r>> \o rs
       ELSE <<Head(rs)>> \o InsertByKey(r, Tail(rs))

RECURSIVE SortedByKey(_)
SortedByKey(rs) ==
  IF rs = <<>> THEN <<>>
  ELSE InsertByKey(rs[Len(rs)], SortedByKey(SubSeq(rs, 1, Len(rs) - 1)))

\* one key of the JSON object with its array, the entries in the order of the list
JsonHost(r) ==
  <<Line("json-key", r.ip, 0, "", "")>>
  \o [k \in 1..Len(r.entries) |->
        Line("json-entry", "", r.entries[k].port, r.entries[k].state, r.entries[k].banner)]

\* line 216: print(json.dumps(results, indent=2, sort_keys=True))
PrintJson(rep) ==
  IF rep = <<>> THEN <<Line("{}", "", 0, "", "")>>
  ELSE <<Line("{", "", 0, "", "")>>
       \o Concat([k \in 1..Len(rep) |-> JsonHost(SortedByKey(rep)[k])])
       \o <<Line("}", "", 0, "", "")>>

\* the order of the tests of lines 215-222 reversed
ChosenLastWins(json, csv, ndjson) ==
  IF ndjson THEN "ndjson" ELSE IF csv THEN "csv" ELSE IF json THEN "json" ELSE "pretty"

\* lines 215-222: the renderer the flags select
Chosen(json, csv, ndjson) ==
  IF json THEN "json" ELSE IF csv THEN "csv" ELSE IF ndjson THEN "ndjson" ELSE "pretty"

Rendering(chosen, rep, open_only, header) ==
  CASE chosen = "json" -> PrintJson(rep)
    [] chosen = "csv" -> PrintCsv(rep, open_only, header)
    [] chosen = "ndjson" -> PrintNdjson(rep, open_only)
    [] chosen = "pretty" -> PrintPretty(rep, open_only)

-----------------------------------------------------------------------------
(* The inputs of the end-to-end model *)

MainTargets ==
  { <<"192.168.0.1">>, <<"192.168.0.0/30">>, <<"a.example">>, <<" ">>, <<"10.0.0.0/33">>,
    <<"nx.invalid", "192.168.0.1">> }

MainPortArgs ==
  { ListSpec(<<IntPart(22)>>), ListSpec(<<RangePart(23, 22)>>), ListSpec(<<IntPart(0)>>),
    ListSpec(<<BadPart>>) }

MainExcludeArgs == { NoSpec, ListSpec(<<IntPart(22)>>), ListSpec(<<BadPart>>) }

Flags == [conc : 1..MaxConc, open_only : BOOLEAN, do_banner : BOOLEAN, progress : BOOLEAN]

NoRender == [json |-> FALSE, csv |-> FALSE, ndjson |-> FALSE, header |-> FALSE, chosen |-> ""]

\* what a banner read can return, with data.decode(errors="ignore").strip()
BannerData == {"SSH-2.0", "", "say \"hi\""}

Blank0 ==
  /\ tokens = <<>> /\ ports = <<>> /\ exclude = {} /\ ips = <<>> /\ work = <<>>
  /\ tasks = <<>> /\ started = 0 /\ tpc = <<>> /\ tbanner = <<>> /\ sem = 0
  /\ waiters = <<>> /\ results = <<>> /\ done = 0 /\ report = <<>> /\ render = NoRender
  /\ stdout = <<>> /\ stderr = <<>> /\ exitCode = <<>> /\ attempts = <<>>
  /\ connected = {} /\ bannerErr = {} /\ interrupted = ""

Init ==
  /\ pc = "parse"
  /\ targets \in MainTargets
  /\ portArg \in MainPortArgs
  /\ excludeArg \in MainExcludeArgs
  /\ flags \in Flags
  /\ Blank0

-----------------------------------------------------------------------------
(* main *)

scanVars == <<work, tasks, started, tpc, tbanner, sem, waiters, results, done, attempts,
              connected, bannerErr>>
argVars == <<targets, portArg, excludeArg, flags>>

\* the test of line 196 left out
RejectedKeepsNoPorts(t, p, x) == t.err \/ p.err \/ x.err

\* lines 194-198: one of the three calls raises, or line 196 does
Rejected(t, p, x) == t.err \/ p.err \/ p.val = <<>> \/ x.err

\* lines 193-199
ParseInput ==
  /\ pc = "parse"
  /\ LET t == ExpandTargets(targets)
         p == ParsePorts(portArg)
         x == ParseExclude(excludeArg)
     IN  IF Rejected(t, p, x)
           THEN /\ stderr' = Append(stderr, Diag("[!] Invalid input", 0, 0))
                /\ exitCode' = <<ExitInvalid>>
                /\ pc' = "exit"
                /\ UNCHANGED <<tokens, ports, exclude>>
           ELSE /\ tokens' = t.val
                /\ ports' = p.val
                /\ exclude' = x.val
                /\ pc' = "resolve"
                /\ UNCHANGED <<stderr, exitCode>>
  /\ UNCHANGED <<argVars, scanVars, ips, report, render, stdout, interrupted>>

\* lines 202-204; an exception of materialize_ips is not caught by main
Resolve ==
  /\ pc = "resolve"
  /\ LET r == MaterializeIps(tokens)
     IN  IF r.err
           THEN /\ pc' = "raised"
                /\ stderr' = Append(stderr, Diag("Traceback", 0, 0))
                /\ UNCHANGED <<ips, exitCode>>
           ELSE IF r.val = <<>>
             THEN /\ stderr' = Append(stderr, Diag("[!] No resolvable targets.", 0, 0))
                  /\ exitCode' = <<ExitInvalid>>
                  /\ pc' = "exit"
                  /\ UNCHANGED ips
             ELSE /\ ips' = r.val
                  /\ pc' = "start"
                  /\ UNCHANGED <<stderr, exitCode>>
  /\ UNCHANGED <<argVars, scanVars, tokens, ports, exclude, report, render, stdout,
                 interrupted>>

\* lines 206-211 and 85-90, 104: run_scan up to the creation of the tasks
StartScan ==
  /\ pc = "start"
  /\ sem' = flags.conc
  /\ waiters' = <<>>
  /\ results' = [h \in SeqToSet(ips) |-> <<>>]
  /\ work' = WorkPorts(ports, exclude)
  /\ done' = 0
  /\ tasks' = Pairs(ips, work')
  /\ tpc' = [i \in 1..Len(tasks') |-> "new"]
  /\ tbanner' = [i \in 1..Len(tasks') |-> ""]
  /\ started' = 0
  /\ pc' = "scan"
  /\ UNCHANGED <<argVars, tokens, ports, exclude, ips, report, render, stdout, stderr,
                 exitCode, attempts, connected, bannerErr, interrupted>>

\* line 94, the first step of a task: sem.acquire(), then probe up to open_connection.
\* The tasks take their first step in creation order.
TaskStart ==
  /\ pc = "scan"
  /\ started < Len(tasks)
  /\ LET i == started + 1 IN
       /\ started' = i
       /\ IF Locked(sem, waiters)
            THEN /\ waiters' = Append(waiters, i)
                 /\ tpc' = [tpc EXCEPT ![i] = "waiting"]
                 /\ UNCHANGED <<sem, attempts>>
            ELSE /\ sem' = sem - 1
                 /\ tpc' = [tpc EXCEPT ![i] = "connect"]
                 /\ attempts' = Append(attempts, tasks[i])
                 /\ UNCHANGED waiters
  /\ UNCHANGED <<pc, argVars, tokens, ports, exclude, ips, work, tasks, tbanner, results,
                 done, report, render, stdout, stderr, exitCode, connected, bannerErr, interrupted>>

\* a release that wakes no waiter
WokenNone(queue) == {}

\* line 94, the exit of "async with sem": release() wakes the first waiter, if any
Woken(queue) == IF queue = <<>> THEN {} ELSE {Head(queue)}

\* lines 69-77: the awaits of probe, the position of a task at each, and whether the
\* await is wrapped in asyncio.wait_for
Awaits ==
  { [step |-> "connect", at |-> "connect", timed |-> TRUE],
    [step |-> "flush", at |-> "banner", timed |-> FALSE],
    [step |-> "banner read", at |-> "banner", timed |-> TRUE],
    [step |-> "close", at |-> "closing", timed |-> FALSE] }

\* an update lost when two probes finish one after the other
CountedStale(n) == IF n = 1 THEN n ELSE n + 1

\* line 98: done += 1, with no await between the read and the write
Counted(n) == n + 1

\* lines 96-102 and the exit of "async with sem": the result is appended, the slot is
\* released (handed to the first waiter, whose probe then starts), done is counted
Finish(i, ok, banner) ==
  /\ results' = IF Keep(ok, flags.open_only)
                  THEN [results EXCEPT ![tasks[i].ip] = Append(@, Entry(tasks[i].port, ok, banner))]
                  ELSE results
  /\ IF Woken(waiters) # {}
       THEN /\ tpc' = [tpc EXCEPT ![i] = "done", ![Head(waiters)] = "connect"]
            /\ attempts' = Append(attempts, tasks[Head(waiters)])
            /\ waiters' = Tail(waiters)
            /\ UNCHANGED sem
       ELSE /\ tpc' = [tpc EXCEPT ![i] = "done"]
            /\ sem' = sem + 1
            /\ UNCHANGED <<waiters, attempts>>
  /\ done' = Counted(done)
  /\ stderr' = IF ProgressDue(done')
                 THEN Append(stderr, Diag("Progress", done', Total))
                 ELSE stderr

AfterConnectAlwaysBanner(do_banner) == "banner"

\* line 71: the banner sequence runs only under do_banner, else close() is next
AfterConnect(do_banner) == IF do_banner THEN "banner" ELSE "closing"

SuppressedUnlessRaised(raised) == ~raised

\* lines 72 and 79: suppress(Exception) keeps an exception of the banner sequence from
\* reaching the except clause, so the probe still returns True
Suppressed(raised) == TRUE

\* The loop polls for I/O only after every task has taken its first step
Polling == pc = "scan" /\ started = Len(tasks)

\* line 69 raises (refused, unreachable, TimeoutError of wait_for): lines 79-80
ConnectFail(i) ==
  /\ Polling
  /\ tpc[i] = "connect"
  /\ \E why \in {"refused", "timeout"} : Finish(i, FALSE, "")
  /\ UNCHANGED <<pc, argVars, tokens, ports, exclude, ips, work, tasks, started, tbanner,
                 report, render, stdout, exitCode, connected, bannerErr, interrupted>>

\* line 69 returns: lines 70-71
ConnectOk(i) ==
  /\ Polling
  /\ tpc[i] = "connect"
  /\ connected' = connected \cup {tasks[i]}
  /\ tpc' = [tpc EXCEPT ![i] = AfterConnect(flags.do_banner)]
  /\ UNCHANGED <<pc, argVars, tokens, ports, exclude, ips, work, tasks, started, tbanner,
                 sem, waiters, results, done, report, render, stdout, stderr, exitCode,
                 attempts, bannerErr, interrupted>>

\* lines 72-76: write, drain, read and decode under suppress(Exception), then close()
Banner(i) ==
  /\ Polling
  /\ tpc[i] = "banner"
  /\ \E how \in {"write raises", "drain raises", "read times out", "read returns"} :
       \E data \in BannerData :
         /\ tbanner' = [tbanner EXCEPT ![i] = IF how = "read returns" THEN data ELSE ""]
         /\ bannerErr' = IF how = "read returns" THEN bannerErr
                          ELSE bannerErr \cup {tasks[i]}
  /\ tpc' = [tpc EXCEPT ![i] = "closing"]
  /\ UNCHANGED <<pc, argVars, tokens, ports, exclude, ips, work, tasks, started, sem,
                 waiters, results, done, report, render, stdout, stderr, exitCode,
                 attempts, connected, interrupted>>

\* lines 77-78: wait_closed() returns or raises, probe returns (True, banner)
Closed(i) ==
  /\ Polling
  /\ tpc[i] = "closing"
  /\ Finish(i, Suppressed(tasks[i] \in bannerErr), tbanner[i])
  /\ UNCHANGED <<pc, argVars, tokens, ports, exclude, ips, work, tasks, started, tbanner,
                 report, render, stdout, exitCode, connected, bannerErr, interrupted>>

\* lines 106, 110-113: gather returns, the finally block, the dict returned to main
ScanFinish ==
  /\ Polling
  /\ \A i \in 1..Len(tasks) : tpc[i] = "done"
  /\ stderr' = IF flags.progress THEN Append(stderr, Diag("Progress: done", 0, 0)) ELSE stderr
  /\ report' = Report(results, ips, flags.open_only)
  /\ pc' = "render"
  /\ UNCHANGED <<argVars, scanVars, tokens, ports, exclude, ips, render, stdout, exitCode,
                 interrupted>>

\* an interrupt that cancels nothing
CancelledNone(tp) == tp

\* the tasks after cancellation: lines 107-109 and asyncio.run's shutdown
Cancelled(tp) == [i \in 1..Len(tp) |-> IF tp[i] = "done" THEN "done" ELSE "cancelled"]

\* KeyboardInterrupt inside the try of lines 201-213: the running tasks are cancelled
\* (each holder leaves "async with sem"), the finally block of run_scan runs, main
\* prints "[!] Aborted." and returns 130
Interrupt ==
  /\ pc \in {"resolve", "start", "scan"}
  /\ interrupted' = pc
  /\ tpc' = Cancelled(tpc)
  /\ sem' = sem + Cardinality(Holding)
  /\ waiters' = <<>>
  /\ stderr' = (IF pc = "scan" /\ flags.progress
                  THEN Append(stderr, Diag("Progress: done", 0, 0)) ELSE stderr)
               \o <<Diag("[!] Aborted.", 0, 0)>>
  /\ exitCode' = <<ExitAborted>>
  /\ pc' = "exit"
  /\ UNCHANGED <<argVars, tokens, ports, exclude, ips, work, tasks, started, tbanner,
                 results, done, report, render, stdout, attempts, connected, bannerErr>>

\* lines 215-223
Render ==
  /\ pc = "render"
  /\ \E json, csv, ndjson, header \in BOOLEAN :
       /\ render' = [json |-> json, csv |-> csv, ndjson |-> ndjson, header |-> header,
                     chosen |-> Chosen(json, csv, ndjson)]
       /\ stdout' = stdout \o Rendering(Chosen(json, csv, ndjson), report, flags.open_only, header)
  /\ exitCode' = <<ExitOk>>
  /\ pc' = "exit"
  /\ UNCHANGED <<argVars, scanVars, tokens, ports, exclude, ips, report, stderr,
                 interrupted>>

Next ==
  \/ ParseInput
  \/ Resolve
  \/ StartScan
  \/ TaskStart
  \/ \E i \in 1..Len(tasks) : ConnectFail(i)
  \/ \E i \in 1..Len(tasks) : ConnectOk(i)
  \/ \E i \in 1..Len(tasks) : Banner(i)
  \/ \E i \in 1..Len(tasks) : Closed(i)
  \/ ScanFinish
  \/ Interrupt
  \/ Render

Spec == Init /\ [][Next]_vars

\* The event loop runs every callback that is ready, and every await of probe ends:
\* connect and the banner read at their timeout at the latest, drain() and
\* wait_closed() without waiting for the peer. Nothing makes an interrupt arrive, so
\* fairness is on the steps of the program alone.
InitFair ==
  /\ Init
  /\ targets \in {<<"192.168.0.1">>, <<"192.168.0.0/30">>}
  /\ portArg \in {ListSpec(<<IntPart(22)>>), ListSpec(<<RangePart(23, 22)>>)}
  /\ excludeArg = NoSpec
  /\ flags.open_only /\ ~flags.progress

SpecFair == InitFair /\ [][Next]_vars /\ WF_vars(Next /\ UNCHANGED interrupted)

-----------------------------------------------------------------------------
(* Long scans: enough probes for the counter to pass ProgressEvery. The hosts listen on
   port 22 at most, banner capture is off, only open ports are kept, no interrupt
   arrives, and every attempt takes the same time, so that the probes end in the order
   in which they started. *)

LongTargets == {<<"192.168.0.1">>, <<"192.168.0.0/30">>, <<"192.168.0.0/30", "::1">>}

LongPortArgs ==
  {CommonSpec, ListSpec(<<RangePart(1, MidRange)>>), ListSpec(<<RangePart(1, MaxRange)>>)}

InitProgress ==
  /\ pc = "parse"
  /\ targets \in LongTargets
  /\ portArg \in LongPortArgs
  /\ excludeArg = NoSpec
  /\ flags \in {f \in Flags : f.open_only /\ ~f.do_banner}
  /\ Blank0

\* the probe that started first among those holding a slot
Oldest(i) == \A j \in Holding : i <= j

\* line 69 raises
ConnectFailNext(i) == Oldest(i) /\ ConnectFail(i)

\* line 69 returns: something listens on the port
ConnectOkSsh(i) == Oldest(i) /\ tasks[i].port = 22 /\ ConnectOk(i)

\* lines 77-78
ClosedNext(i) == Oldest(i) /\ Closed(i)

NextProgress ==
  \/ ParseInput
  \/ Resolve
  \/ StartScan
  \/ TaskStart
  \/ \E i \in 1..Len(tasks) : ConnectFailNext(i)
  \/ \E i \in 1..Len(tasks) : ConnectOkSsh(i)
  \/ \E i \in 1..Len(tasks) : ClosedNext(i)
  \/ ScanFinish
  \/ Render

SpecProgress == InitProgress /\ [][NextProgress]_vars

-----------------------------------------------------------------------------
(* parse_ports and parse_exclude called on their own *)

Seqs(S, n) == UNION {[1..k -> S] : k \in 1..n}

\* the numbers written: the low end, and the three around the upper limit
PortVals == (0..MaxVal) \cup ((MaxPortNumber - 1)..(MaxPortNumber + 1))

\* both ends of a range are taken from the same end of the scale
Parts ==
  {Blank, BadPart} \cup {IntPart(v) : v \in PortVals}
  \cup {RangePart(a, b) : a, b \in {v \in PortVals : v <= MaxVal}}
  \cup {RangePart(a, b) : a, b \in {v \in PortVals : v > MaxVal}}

PortSpecs == {CommonSpec} \cup {ListSpec(ps) : ps \in Seqs(Parts, MaxParts)}

unitVars == <<targets, flags, tokens, ips, work, tasks, started, tpc, tbanner, sem, waiters,
              results, done, report, render, stdout, stderr, exitCode, attempts, connected, bannerErr,
              interrupted>>

InitPorts ==
  /\ pc = "call parse_ports"
  /\ portArg \in PortSpecs
  /\ excludeArg = portArg
  /\ targets = <<>>
  /\ flags = [conc |-> 1, open_only |-> TRUE, do_banner |-> TRUE, progress |-> FALSE]
  /\ Blank0

\* ports = parse_ports(s)
CallParsePorts ==
  /\ pc = "call parse_ports"
  /\ LET r == ParsePorts(portArg) IN
       IF r.err THEN pc' = "ValueError" /\ UNCHANGED ports
       ELSE pc' = "call parse_exclude" /\ ports' = r.val
  /\ UNCHANGED <<portArg, excludeArg, exclude, unitVars>>

\* exclude = parse_exclude(s)
CallParseExclude ==
  /\ pc = "call parse_exclude"
  /\ LET r == ParseExclude(excludeArg) IN
       IF r.err THEN pc' = "ValueError" /\ UNCHANGED exclude
       ELSE pc' = "returned" /\ exclude' = r.val
  /\ UNCHANGED <<portArg, excludeArg, ports, unitVars>>

NextPorts == CallParsePorts \/ CallParseExclude

SpecPorts == InitPorts /\ [][NextPorts]_vars

-----------------------------------------------------------------------------
(* expand_targets and materialize_ips called on their own *)

unitVarsT == <<portArg, excludeArg, flags, ports, exclude, work, tasks, started, tpc, tbanner,
               sem, waiters, results, done, report, render, stdout, stderr, exitCode,
               attempts, connected, bannerErr, interrupted>>

InitTargets ==
  /\ pc = "call expand_targets"
  /\ targets \in Seqs(AllTokens, MaxTargets)
  /\ portArg = CommonSpec
  /\ excludeArg = NoSpec
  /\ flags = [conc |-> 1, open_only |-> TRUE, do_banner |-> TRUE, progress |-> FALSE]
  /\ Blank0

\* tokens = expand_targets(targets)
CallExpandTargets ==
  /\ pc = "call expand_targets"
  /\ LET r == ExpandTargets(targets) IN
       IF r.err THEN pc' = "ValueError" /\ UNCHANGED tokens
       ELSE pc' = "call materialize_ips" /\ tokens' = r.val
  /\ UNCHANGED <<targets, ips, unitVarsT>>

\* ips = asyncio.run(materialize_ips(tokens))
CallMaterializeIps ==
  /\ pc = "call materialize_ips"
  /\ LET r == MaterializeIps(tokens) IN
       IF r.err THEN pc' = "gaierror" /\ UNCHANGED ips
       ELSE pc' = "returned" /\ ips' = r.val
  /\ UNCHANGED <<targets, tokens, unitVarsT>>

NextTargets == CallExpandTargets \/ CallMaterializeIps

SpecTargets == InitTargets /\ [][NextTargets]_vars

-----------------------------------------------------------------------------
(* Properties *)

Count(log, x) == Cardinality({k \in 1..Len(log) : log[k] = x})

\* run_scan returned its dict to main
ScanCompleted == pc = "render" \/ (pc = "exit" /\ exitCode = <<ExitOk>>)

\* the pairs a scan has to probe: H x (P - E)
Expected == {[ip |-> h, port |-> p] : h \in SeqToSet(ips), p \in SeqToSet(ports) \ exclude}

\* C1: at every moment of every interleaving the number of probes that hold a gate slot
\* (acquired, not yet released) is at most the configured capacity; the counter of free
\* slots never goes below zero.
C1_GateBound == Cardinality(Holding) <= flags.conc /\ sem >= 0

\* the gate is full while a probe is still queued behind it
C1_Witness == pc = "scan" /\ Cardinality(Holding) = flags.conc /\ waiters # <<>>

\* C2: no pair is ever attempted twice and no pair outside H x (P - E) is attempted; when
\* the scan has run to completion every pair of H x (P - E) was attempted exactly once
\* (|H| * |P - E| attempts in all) and no excluded port is in the report.
C2_ExactlyOnce ==
  /\ \A k \in 1..Len(attempts) : attempts[k] \in Expected /\ Count(attempts, attempts[k]) = 1
  /\ ScanCompleted =>
       /\ \A x \in Expected : Count(attempts, x) = 1
       /\ Len(attempts) = Len(ips) * Cardinality(SeqToSet(ports) \ exclude)
       /\ \A r \in 1..Len(report) : \A k \in 1..Len(report[r].entries) :
            report[r].entries[k].port \notin exclude

\* a completed scan of two hosts with one of two ports excluded, one probe failed
C2_Witness ==
  /\ ScanCompleted
  /\ Len(ips) = 2 /\ Len(ports) = 2 /\ exclude \cap SeqToSet(ports) # {}
  /\ Len(attempts) = 2
  /\ Cardinality(connected) = 1

\* the (host, port) of every result line of an output, in the order written; a pretty or
\* JSON line belongs to the host of the last header before it
RECURSIVE EmittedFrom(_, _)
EmittedFrom(out, host) ==
  IF out = <<>> THEN <<>>
  ELSE LET l == Head(out) IN
       IF l.kind \in {"host", "json-key"} THEN EmittedFrom(Tail(out), l.ip)
       ELSE IF l.kind \in {"port", "json-entry"}
         THEN <<[ip |-> host, port |-> l.port]>> \o EmittedFrom(Tail(out), host)
       ELSE IF l.kind \in {"csv", "ndjson"}
         THEN <<[ip |-> l.ip, port |-> l.port]>> \o EmittedFrom(Tail(out), host)
       ELSE EmittedFrom(Tail(out), host)

Emitted == EmittedFrom(stdout, "")

AscendingPerHost(em) ==
  \A i, j \in 1..Len(em) : (i < j /\ em[i].ip = em[j].ip) => em[i].port < em[j].port

\* C3: whatever rendering is selected and whatever the completion order of the probes,
\* the results of each host are written in strictly ascending port order.
C3_AscendingPorts == AscendingPerHost(Emitted)

\* the same statement for the three renderers that sort (CSV, NDJSON, pretty)
C3_AscendingUnlessJson == render.chosen # "json" => AscendingPerHost(Emitted)

\* the hosts with at least one established connection
HostsOpen == {x.ip : x \in connected}

ReportKeys == {report[r].ip : r \in 1..Len(report)}

\* C4: in the dict run_scan returns no host has an empty list; in open-only mode every
\* entry is open and the keys are exactly the hosts with at least one successful probe.
C4_ReportFilter ==
  ScanCompleted =>
    /\ \A r \in 1..Len(report) : report[r].entries # <<>>
    /\ flags.open_only =>
         /\ \A r \in 1..Len(report) : \A k \in 1..Len(report[r].entries) :
              report[r].entries[k].state = "open"
         /\ ReportKeys = HostsOpen

\* open-only, two hosts scanned, one with an open port and one with none
C4_Witness ==
  /\ ScanCompleted /\ flags.open_only
  /\ Len(ips) = 2 /\ Cardinality(ReportKeys) = 1
  /\ \E x \in SeqToSet(attempts) : x \notin connected

\* C5: once an interrupt has arrived while the scan is in progress, no task is left
\* running or waiting, nothing is on the primary output, and main has returned 130.
C5_InterruptAborts ==
  interrupted = "scan" =>
    /\ \A i \in 1..Len(tasks) : tpc[i] \in {"done", "cancelled"}
    /\ stdout = <<>>
    /\ pc = "exit" /\ exitCode = <<ExitAborted>>

\* an interrupt that found one probe finished, one in flight and one queued
C5_Witness ==
  /\ interrupted = "scan"
  /\ done >= 1 /\ results # [h \in SeqToSet(ips) |-> <<>>]
  /\ Cardinality({i \in 1..Len(tasks) : tpc[i] = "cancelled"}) >= 2

\* the arguments parsed, and nothing is left of the port list after the exclusion
EmptyWorkList ==
  /\ ~ExpandTargets(targets).err /\ ~ParsePorts(portArg).err /\ ~ParseExclude(excludeArg).err
  /\ ParsePorts(portArg).val # <<>>
  /\ SeqToSet(ParsePorts(portArg).val) \subseteq ParseExclude(excludeArg).val

\* C6: when every parsed port is excluded the run is an input error: no probe is ever
\* attempted, nothing is ever rendered, and when main returns (uninterrupted) it returns 2.
C6_EmptyWorkListIsFatal ==
  EmptyWorkList =>
     /\ attempts = <<>> /\ stdout = <<>>
     /\ (pc = "exit" /\ interrupted = "") => exitCode = <<ExitInvalid>>

\* the tokens whose name resolution fails, and the addresses of the others
Unresolvable(toks) == {i \in 1..Len(toks) : MaterializeOne(toks[i]).err}

OtherAddresses(toks) ==
  Dedupe(Concat([i \in 1..Len(toks) |->
                   IF MaterializeOne(toks[i]).err THEN <<>> ELSE MaterializeOne(toks[i]).val]))

\* C7: with a token whose resolution fails, once main is past the resolution (and was
\* not interrupted) no exception has left it: it has returned 2 when the other tokens
\* give no address, and otherwise the scan runs over the addresses of the other tokens.
C7_ResolutionFailureTolerated ==
  (Unresolvable(tokens) # {} /\ pc \notin {"parse", "resolve"} /\ interrupted = "") =>
     /\ pc # "raised"
     /\ IF OtherAddresses(tokens) = <<>>
          THEN pc = "exit" /\ exitCode = <<ExitInvalid>>
          ELSE ips = OtherAddresses(tokens)

\* an input error of lines 193-199: a malformed CIDR, port or exclusion specification,
\* or a port specification with no valid port
InputError ==
  \/ ExpandTargets(targets).err
  \/ ParsePorts(portArg).err
  \/ ParsePorts(portArg).val = <<>>
  \/ ParseExclude(excludeArg).err

\* the resolution ran to its end and gave no address
EmptyHostList ==
  /\ ~InputError /\ pc \notin {"parse", "resolve"} /\ interrupted = ""
  /\ ~MaterializeIps(tokens).err /\ MaterializeIps(tokens).val = <<>>

\* C8: on an input error no connection is ever attempted and nothing is written to the
\* primary output, and once main is past the failing step it has returned 2.
C8_InputErrorExit2 ==
  (InputError \/ EmptyHostList) =>
     /\ attempts = <<>> /\ stdout = <<>> /\ tasks = <<>>
     /\ pc # "parse" => (pc = "exit" /\ exitCode = <<ExitInvalid>>)

\* main has returned after a port specification with no valid port
C8_Witness ==
  /\ pc = "exit" /\ exitCode = <<ExitInvalid>>
  /\ ~ParsePorts(portArg).err /\ ParsePorts(portArg).val = <<>>
  /\ ~ExpandTargets(targets).err /\ ~ParseExclude(excludeArg).err

\* main has returned after a resolution that gave no address
C8_WitnessEmptyHosts == EmptyHostList /\ pc = "exit"

\* first occurrences, by address
RECURSIVE FirstByAddr(_, _)
FirstByAddr(s, seen) ==
  IF s = <<>> THEN <<>>
  ELSE IF Addr(Head(s)) \in seen THEN FirstByAddr(Tail(s), seen)
       ELSE <<Head(s)>> \o FirstByAddr(Tail(s), seen \cup {Addr(Head(s))})

\* the expansion of the target list, token by token, left to right
Expansion(ts) ==
  Concat([i \in 1..Len(ts) |->
            IF Strip(ts[i]) = "" THEN <<>>
            ELSE IF HasSlash(ts[i]) THEN NetworkHosts(ts[i]).val
            ELSE IF IsIpLiteral(ts[i]) THEN <<ts[i]>>
            ELSE [k \in 1..Len(GetAddrInfo(ts[i]).val) |-> GetAddrInfo(ts[i]).val[k].ip]])

\* C9: the resolved host list holds no address twice and lists the addresses in the
\* order of their first occurrence in the expansion of the tokens.
C9_DedupedFirstSeen ==
  pc = "returned" =>
    /\ \A i, j \in 1..Len(ips) : i # j => Addr(ips[i]) # Addr(ips[j])
    /\ ips = FirstByAddr(Expansion(targets), {})

\* the same with "address" read as "address string"
C9_DedupedStrings ==
  pc = "returned" =>
    /\ \A i, j \in 1..Len(ips) : i # j => ips[i] # ips[j]
    /\ SeqToSet(ips) = SeqToSet(Expansion(targets))
    /\ \A i, j \in 1..Len(ips) : i < j =>
         (\E a \in 1..Len(Expansion(targets)) :
            /\ Expansion(targets)[a] = ips[i]
            /\ \A b \in 1..Len(Expansion(targets)) : Expansion(targets)[b] = ips[j] => a < b)

\* the value p is listed by the specification: written itself, or inside a range
Listed(sp, p) ==
  \E i \in 1..Len(sp.parts) :
    \/ sp.parts[i].k = "int" /\ sp.parts[i].a = p
    \/ /\ sp.parts[i].k = "range"
       /\ \/ (sp.parts[i].a <= p /\ p <= sp.parts[i].b)
          \/ (sp.parts[i].b <= p /\ p <= sp.parts[i].a)

\* every number a specification can make a port of, and one more on each side
Candidates(sp) ==
  UNION {(sp.parts[i].a - MaxVal - 1)..(sp.parts[i].a + MaxVal + 1) : i \in 1..Len(sp.parts)}

WellFormed(sp) == sp.kind = "list" /\ \A i \in 1..Len(sp.parts) : sp.parts[i].k # "bad"

\* C10: for a specification of integers and ranges parse_ports returns, strictly
\* ascending, exactly the listed values that lie in [1, 65535] (a range with low > high
\* is read as high..low), and parse_exclude returns the same values as a set.
C10_ParsePorts ==
  WellFormed(portArg) =>
    /\ pc # "ValueError"
    /\ pc \in {"call parse_exclude", "returned"} =>
         /\ \A i, j \in 1..Len(ports) : i < j => ports[i] < ports[j]
         /\ \A p \in Candidates(portArg) \cup SeqToSet(ports) :
              p \in SeqToSet(ports) <=> (Listed(portArg, p) /\ 1 <= p /\ p <= 65535)
    /\ pc = "returned" => exclude = SeqToSet(ports)

\* a reversed range over the upper limit next to a value below the lower limit
C10_Witness ==
  /\ pc = "returned"
  /\ \E i, j \in 1..Len(portArg.parts) :
       /\ portArg.parts[i].k = "range" /\ portArg.parts[i].a > MaxPortNumber
       /\ portArg.parts[i].b < portArg.parts[i].a
       /\ portArg.parts[j].k = "int" /\ portArg.parts[j].a = 0
  /\ Len(ports) >= 2

\* a CSV field as a reader takes it: the enclosing quotes off, doubled quotes single
CsvField(q) ==
  CASE q = "\"\"" -> ""
    [] q = "\"SSH-2.0\"" -> "SSH-2.0"
    [] q = "\"say \"\"hi\"\"\"" -> "say \"hi\""
    [] OTHER -> q

Tuple(ip, port, state, banner) == [ip |-> ip, port |-> port, state |-> state, banner |-> banner]

\* the (host, port, state, banner) an output presents; a pretty or JSON line belongs to
\* the host of the last header before it
RECURSIVE TuplesFrom(_, _)
TuplesFrom(out, host) ==
  IF out = <<>> THEN {}
  ELSE LET l == Head(out) IN
       IF l.kind \in {"host", "json-key"} THEN TuplesFrom(Tail(out), l.ip)
       ELSE IF l.kind \in {"port", "json-entry"}
         THEN {Tuple(host, l.port, l.state, l.banner)} \cup TuplesFrom(Tail(out), host)
       ELSE IF l.kind = "ndjson"
         THEN {Tuple(l.ip, l.port, l.state, l.banner)} \cup TuplesFrom(Tail(out), host)
       ELSE IF l.kind = "csv"
         THEN {Tuple(l.ip, l.port, l.state, CsvField(l.banner))} \cup TuplesFrom(Tail(out), host)
       ELSE TuplesFrom(Tail(out), host)

Renderers == {"json", "csv", "ndjson", "pretty"}

\* C11: for the report of a completed scan and its filter mode, each of the four
\* renderings (CSV with and without header) presents exactly the tuples of the report,
\* so no rendering drops, adds or alters a tuple another one shows.
C11_SameTuples ==
  ScanCompleted =>
    \A c \in Renderers : \A header \in BOOLEAN :
      TuplesFrom(Rendering(c, report, flags.open_only, header), "")
        = UNION {{Tuple(report[r].ip, report[r].entries[k].port, report[r].entries[k].state,
                        report[r].entries[k].banner) : k \in 1..Len(report[r].entries)}
                   : r \in 1..Len(report)}

\* a show-all report with a closed port and an open port whose banner holds a quote
C11_Witness ==
  /\ ScanCompleted /\ ~flags.open_only
  /\ \E r \in 1..Len(report) : \E j, k \in 1..Len(report[r].entries) :
       /\ report[r].entries[j].state = "closed"
       /\ report[r].entries[k].banner = "say \"hi\""

\* every result recorded so far: the per-host lists of run_scan and the report returned
Recorded ==
  UNION {{results[h][k] : k \in 1..Len(results[h])} : h \in DOMAIN results}
  \cup UNION {{report[r].entries[k] : k \in 1..Len(report[r].entries)} : r \in 1..Len(report)}

\* C12: every recorded result whose state is closed, or that was recorded with banner
\* capture disabled, has an empty banner; a non-empty banner is on an open result of a
\* run with banner capture enabled.
C12_BannerOnlyWhenOpenAndEnabled ==
  \A e \in Recorded :
    /\ (e.state = "closed" \/ ~flags.do_banner) => e.banner = ""
    /\ e.banner # "" => (e.state = "open" /\ flags.do_banner)

\* banner capture enabled: an open result with a banner next to a closed result
C12_Witness ==
  /\ flags.do_banner
  /\ \E e, f \in Recorded : e.state = "open" /\ e.banner # "" /\ f.state = "closed"

\* the results recorded for the pair of task i
ResultsOf(i) ==
  IF tasks[i].ip \in DOMAIN results
    THEN {results[tasks[i].ip][k] : k \in {n \in 1..Len(results[tasks[i].ip]) :
                                             results[tasks[i].ip][n].port = tasks[i].port}}
    ELSE {}

\* C13: a probe whose connection was established and whose banner sequence failed
\* (write, flush, read timeout) goes on to close and is recorded as open with an empty
\* banner, never as closed.
C13_BannerFailureStaysOpen ==
  \A i \in 1..Len(tasks) :
    tasks[i] \in bannerErr =>
      /\ tasks[i] \in connected
      /\ tbanner[i] = ""
      /\ tpc[i] \in {"closing", "done", "cancelled"}
      /\ \A e \in ResultsOf(i) : e.state = "open" /\ e.banner = ""
      /\ tpc[i] = "done" => ResultsOf(i) # {}

\* a finished probe whose banner sequence failed, beside one whose banner was read
C13_Witness ==
  \E i, j \in 1..Len(tasks) :
    /\ tasks[i] \in bannerErr /\ tpc[i] = "done"
    /\ tpc[j] = "done" /\ \E e \in ResultsOf(j) : e.banner # ""

\* the kinds of line each renderer writes
KindsOf(c) ==
  CASE c = "json" -> {"{}", "{", "}", "json-key", "json-entry"}
    [] c = "csv" -> {"ip,port,protocol,state,banner", "csv"}
    [] c = "ndjson" -> {"ndjson"}
    [] c = "pretty" -> {"host", "port", "No open ports found.", "No results."}

\* the renderer the precedence JSON, CSV, NDJSON, pretty names for the flags read
Preferred ==
  CHOOSE c \in Renderers :
    /\ render.json => c = "json"
    /\ (~render.json /\ render.csv) => c = "csv"
    /\ (~render.json /\ ~render.csv /\ render.ndjson) => c = "ndjson"
    /\ (~render.json /\ ~render.csv /\ ~render.ndjson) => c = "pretty"

\* C14: whatever the combination of --json, --csv and --ndjson, the primary output of a
\* run that returned 0 is exactly one rendering of the report, the one of the first of
\* JSON, CSV, NDJSON that is set, and the pretty one when none is.
C14_OneRenderingByPrecedence ==
  (pc = "exit" /\ exitCode = <<ExitOk>>) =>
    /\ render.chosen = Preferred
    /\ stdout = Rendering(Preferred, report, flags.open_only, render.header)
    /\ \A k \in 1..Len(stdout) : stdout[k].kind \in KindsOf(Preferred)

\* the three flags set at once on a report with a result
C14_Witness ==
  /\ pc = "exit" /\ exitCode = <<ExitOk>>
  /\ render.json /\ render.csv /\ render.ndjson
  /\ report # <<>> /\ Len(stdout) > 2

\* the probes that have finished
Finished == {i \in 1..Len(tasks) : tpc[i] = "done"}

\* C15: under every interleaving the counter of completed probes equals the number of
\* probes that have finished, so it never exceeds the total, and once the scan has
\* completed it equals |H| * |P - E|.
C15_CounterExact ==
  /\ done = Cardinality(Finished)
  /\ done <= Total
  /\ ScanCompleted => done = Len(ips) * Cardinality(SeqToSet(ports) \ exclude)

\* a completed scan of four probes run two at a time
C15_Witness ==
  /\ ScanCompleted
  /\ flags.conc = 2
  /\ done = 4

\* the ports of the entries of a list, in list order
PortsOf(es) == [k \in 1..Len(es) |-> es[k].port]

\* C16: in show-all mode, once the scan has run to completion, every resolved host has
\* exactly one entry per port of P minus E, in the lists of run_scan and in the report.
C16_ShowAllKeepsEveryResult ==
  (ScanCompleted /\ ~flags.open_only /\ work # <<>>) =>
    /\ \A h \in SeqToSet(ips) :
         /\ Len(results[h]) = Cardinality(SeqToSet(ports) \ exclude)
         /\ SeqToSet(PortsOf(results[h])) = SeqToSet(ports) \ exclude
    /\ {report[r].ip : r \in 1..Len(report)} = SeqToSet(ips)
    /\ \A r \in 1..Len(report) : report[r].entries = results[report[r].ip]

\* two hosts of two ports each, probed two at a time, with open and closed results
C16_Witness ==
  /\ ScanCompleted /\ ~flags.open_only
  /\ flags.conc = 2 /\ Len(ips) = 2 /\ Len(work) = 2
  /\ \E e, f \in Recorded : e.state = "open" /\ f.state = "closed"

\* the probes that have ended: finished, or cancelled by the interrupt
Ended == {i \in 1..Len(tasks) : tpc[i] \in {"done", "cancelled"}}

\* the claim as written: every await a probe is suspended at has a timeout
C17_EverySuspensionTimed ==
  \A i \in Holding : \A a \in Awaits : a.at = tpc[i] => a.timed

\* C17: under fair scheduling every probe that holds a gate slot eventually ends and
\* gives the slot back, whether the peer accepts, refuses, never answers, or accepts
\* and then never sends or never closes, and the run ends with no probe holding a
\* slot. The connect and the banner read are the two awaits bounded by a timeout; the
\* flush and the wait for the close have none.
C17_ProbesEndScanTerminates ==
  /\ [][\A i \in Holding : i \in Holding' \/ i \in Ended']_vars
  /\ <>[](pc \in {"exit", "raised"} /\ Holding = {})
  /\ [](\A a \in Awaits : a.timed <=> a.step \in {"connect", "banner read"})

\* a completed scan of four probes through one slot, with a peer that never sent and
\* a peer that never answered
C17_Witness ==
  /\ ScanCompleted
  /\ flags.conc = 1 /\ Len(tasks) = 4
  /\ Ended = 1..Len(tasks)
  /\ bannerErr # {}
  /\ \E x \in SeqToSet(attempts) : x \notin connected

\* the progress lines written so far
ProgressLines == SelectSeq(stderr, LAMBDA d : d.kind = "Progress")

\* C18: with progress enabled there is one progress line for each count reached so far
\* that is a multiple of 50 or the total, in the order of the counts and each showing
\* the total, and no line for any other count; the last probe of a non-empty scan
\* leaves the line total/total. With progress disabled there is none.
C18_ProgressLines ==
  LET lines == ProgressLines IN
    /\ ~flags.progress => lines = <<>>
    /\ \A k \in 1..Len(lines) : lines[k].n \in 1..done /\ lines[k].of = Total
    /\ \A j, k \in 1..Len(lines) : j < k => lines[j].n < lines[k].n
    /\ flags.progress =>
         \A n \in 1..done :
           (\E k \in 1..Len(lines) : lines[k].n = n) <=> (n % 50 = 0 \/ n = Total)
    /\ (flags.progress /\ Total > 0 /\ done = Total) =>
         lines[Len(lines)] = Diag("Progress", Total, Total)

\* a completed scan of 102 probes: lines at 50, at 100 and at 102
C18_Witness ==
  /\ ScanCompleted /\ flags.progress
  /\ Total = 102 /\ done = Total
  /\ Len(ProgressLines) = 3

\* the position of a host in the resolved list
HostIndex(h) == CHOOSE k \in 1..Len(ips) : ips[k] = h

\* C19: the probes are submitted host by host in the order of the resolved list and,
\* within a host, in ascending port order; the gate's slots are acquired in the order
\* of submission, so the k-th acquisition is by the k-th submitted pair, also when the
\* capacity is smaller than the number of pairs.
C19_HostMajorFifo ==
  /\ \A i, j \in 1..Len(tasks) :
       i < j =>
         /\ HostIndex(tasks[i].ip) <= HostIndex(tasks[j].ip)
         /\ tasks[i].ip = tasks[j].ip => tasks[i].port < tasks[j].port
  /\ Len(attempts) <= Len(tasks)
  /\ \A k \in 1..Len(attempts) : attempts[k] = tasks[k]
  /\ \A i \in 1..Len(tasks) :
       tpc[i] = "waiting" => \A j \in 1..(i - 1) : tpc[j] \notin {"new"}

\* two hosts of two ports each through one slot, every pair having acquired it
C19_Witness ==
  /\ flags.conc = 1
  /\ Len(ips) = 2 /\ Len(work) = 2
  /\ Len(attempts) = 4

\* the finished probes whose connection attempt failed
Failed == {i \in Finished : tasks[i] \notin connected}

\* C20: a probe whose connection attempt failed is recorded as closed with no banner for
\* its pair (in open-only mode it is not recorded), every probe whose connection was
\* established is recorded as open with the banner it read whatever its siblings did, no
\* probe is cancelled unless the run is interrupted, and a scan that was not interrupted
\* returns its report with every probe finished and is rendered with status 0.
C20_FailureIsolated ==
  /\ \A i \in Failed :
       ResultsOf(i) = IF flags.open_only THEN {}
                      ELSE {[port |-> tasks[i].port, state |-> "closed", banner |-> ""]}
  /\ \A i \in Finished \ Failed :
       ResultsOf(i) = {[port |-> tasks[i].port, state |-> "open", banner |-> tbanner[i]]}
  /\ interrupted = "" => \A i \in 1..Len(tasks) : tpc[i] # "cancelled"
  /\ (interrupted = "" /\ pc \in {"render", "exit"} /\ tasks # <<>>) =>
       /\ Finished = 1..Len(tasks)
       /\ ReportKeys = {h \in SeqToSet(ips) : results[h] # <<>> \/ ~flags.open_only}
       /\ \A r \in 1..Len(report) : report[r].entries = results[report[r].ip]
       /\ pc = "exit" => exitCode = <<ExitOk>> /\ render.chosen \in Renderers

\* a completed scan of four probes: one failed, and one submitted after it read a banner
C20_Witness ==
  /\ ScanCompleted /\ Len(tasks) = 4
  /\ Failed # {}
  /\ \E i \in Finished \ Failed : tbanner[i] # "" /\ \E j \in Failed : j < i

====
